---------------------------- MODULE Spec2Model ----------------------------
(***************************************************************************)
(* Model of Scripting/run_all_testbenches.py: the testbench runner of the  *)
(* Segway project.  One invocation of main() selects a test set (or        *)
(* "all"), and for each selected set constructs a TestRunner and calls     *)
(* run(): toolchain probe, library creation, design compilation, one       *)
(* compile + simulate per testbench, summary and report.                   *)
(*                                                                         *)
(* Every external command is one step.  What the external tool answers     *)
(* (exit status, stdout, stderr, or a fault while launching it) is drawn   *)
(* nondeterministically in the step that issues the command.  Text is a    *)
(* sequence of one-character strings, so that lower() and the substring    *)
(* test of the classification are computed as the code computes them.      *)
(***************************************************************************)
EXTENDS Integers, Sequences, FiniteSets, TLC

(***************************************************************************)
(* Bounds of the model.                                                    *)
(***************************************************************************)
\* Only the first MaxDesign files of COMPILE_ORDER are traversed.
MaxDesign == 2
\* Only the first MaxTb testbenches of every test set are run.
MaxTb == 2
\* Simulator texts of the classification check are built of at most
\* MaxFrags fragments.
MaxFrags == 2
\* The reporter check summarises result lists of at most MaxResults outcomes.
MaxResults == 3

Min(a, b) == IF a <= b THEN a ELSE b

Prefix(s, n) == SubSeq(s, 1, Min(n, Len(s)))

(***************************************************************************)
(* Configuration (module-level constants of the script).                   *)
(***************************************************************************)
WORK_LIB == "work"

COMPILE_ORDER ==
  << "../task_pkg.sv", "../over_I_task_pkg.sv",
     "../UART_tx.sv", "../UART_rx.sv", "../PWM11.sv", "../SPI_mnrch.sv",
     "../SPI_ADC128S.sv", "../A2D_intf.sv", "../inert_intf.sv",
     "../rst_synch.sv", "../PID.sv", "../mtr_drv.sv", "../balance_cntrl.sv",
     "../steer_en_SM.sv", "../steer_en.sv", "../Auth_blk.sv",
     "../piezo_drv.sv", "../Segway.sv",
     "../inertial_integrator.sv", "../SegwayMath.sv", "../SegwayModel.sv",
     "../ADC128S_FC.sv" >>

\* A path is kept as its parent directory, the stem of its last component
\* and the suffix, i.e. "<parent>/<stem><suffix>".
TbPath(parent, stem) == [parent |-> parent, stem |-> stem, suffix |-> ".sv"]

TESTBENCH_SETS ==
  [ tests |->
      << [module |-> "Auth_segway_tb",
          path |-> TbPath("../tests", "Auth_segway_tb")],
         [module |-> "linear_speed_tb",
          path |-> TbPath("../tests", "linear_speed_tb")],
         [module |-> "over_I_tb",
          path |-> TbPath("../tests", "over_I_tb")],
         [module |-> "Segway_tb",
          path |-> TbPath("../tests", "Segway_tb")],
         [module |-> "steering_response_tb",
          path |-> TbPath("../tests", "steering_response_tb")],
         [module |-> "simultaneous_faults_tb",
          path |-> TbPath("../tests", "simultaneous_faults_tb")] >>,
    physics_tests |->
      << [module |-> "Auth_segway_tb",
          path |-> TbPath("../physics_tests", "Auth_segway_phys_tb")],
         [module |-> "Auth_segway_tb",
          path |-> TbPath("../physics_tests", "Auth_segway_tb")],
         [module |-> "linear_speed_tb",
          path |-> TbPath("../physics_tests", "linear_speed_phys_tb")],
         [module |-> "over_I_tb",
          path |-> TbPath("../physics_tests", "over_I_phys_tb")],
         [module |-> "Segway_tb",
          path |-> TbPath("../physics_tests", "Segway_phys_tb")],
         [module |-> "steering_response_tb",
          path |-> TbPath("../physics_tests", "steering_response_phys_tb")] >>,
    ansley |->
      << [module |-> "Auth_segway_tb",
          path |-> TbPath("../Ansley phys TB", "Auth_segway_tb")],
         [module |-> "linear_speed_tb",
          path |-> TbPath("../Ansley phys TB", "linear_speed_phys_tb")],
         [module |-> "over_I_tb",
          path |-> TbPath("../Ansley phys TB", "over_I_phys_tb")],
         [module |-> "Segway_tb",
          path |-> TbPath("../Ansley phys TB", "Segway_phys_tb")],
         [module |-> "steering_response_tb",
          path |-> TbPath("../Ansley phys TB", "steering_response_phys_tb")] >> ]

\* list(TESTBENCH_SETS.keys()): a dict keeps its insertion order.
TestSetKeys == << "tests", "physics_tests", "ansley" >>

TestSetNames == { TestSetKeys[i] : i \in 1..Len(TestSetKeys) }

\* The files compile_design traverses and the testbenches of a set, within
\* the bounds of the model.
DesignFiles == Prefix(COMPILE_ORDER, MaxDesign)

Testbenches(test_set) == Prefix(TESTBENCH_SETS[test_set], MaxTb)

\* Path(tb["path"]).stem
Stem(path) == path.stem

(***************************************************************************)
(* Text.                                                                   *)
(***************************************************************************)
UpperCase == << "A","B","C","D","E","F","G","H","I","J","K","L","M",
                "N","O","P","Q","R","S","T","U","V","W","X","Y","Z" >>

LowerCase == << "a","b","c","d","e","f","g","h","i","j","k","l","m",
                "n","o","p","q","r","s","t","u","v","w","x","y","z" >>

LowerChar(c) ==
  IF \E i \in 1..Len(UpperCase) : UpperCase[i] = c
  THEN LowerCase[CHOOSE i \in 1..Len(UpperCase) : UpperCase[i] = c]
  ELSE c

\* str.lower()
Lower(s) == [i \in 1..Len(s) |-> LowerChar(s[i])]

\* sub in s
Contains(sub, s) ==
  \E i \in 0..(Len(s) - Len(sub)) : SubSeq(s, i + 1, i + Len(sub)) = sub

\* The needles of the classification.
STR_error == << "e","r","r","o","r" >>
STR_0_errors == << "0"," ","e","r","r","o","r","s" >>
STR_yahoo == << "y","a","h","o","o" >>
STR_test_passed == << "t","e","s","t"," ","p","a","s","s","e","d" >>
STR_success == << "s","u","c","c","e","s","s" >>

\* Texts an external tool may write.
EmptyText == << >>
ErrorText ==
  << "E","R","R","O","R",":"," ","2"," ","e","r","r","o","r","s" >>
ZeroErrorsText ==
  << "0"," ","e","r","r","o","r","s",","," ","0"," ","w","a","r","n","i","n","g","s" >>
PassedText == << "T","E","S","T"," ","P","A","S","S","E","D" >>
YahooText == << "Y","A","H","O","O","!" >>
SuccessText == << "S","u","c","c","e","s","s" >>
NeutralText == << "#"," ","r","u","n"," ","-","a","l","l" >>
\* str(e) of a fault while launching the process
FaultText == << "O","S","E","r","r","o","r" >>

Fragments ==
  << ErrorText, ZeroErrorsText, PassedText, YahooText, SuccessText,
     NeutralText >>

\* The lines of a text are joined by a newline.
RECURSIVE JoinFragments(_)
JoinFragments(ids) ==
  IF Len(ids) = 0 THEN EmptyText
  ELSE IF Len(ids) = 1 THEN Fragments[ids[1]]
  ELSE Fragments[ids[1]] \o << "\n" >> \o JoinFragments(Tail(ids))

FragmentIds(n) == UNION { [1..k -> 1..Len(Fragments)] : k \in 0..n }

\* All texts of at most n fragments.
TextsUpTo(n) == { JoinFragments(ids) : ids \in FragmentIds(n) }

(***************************************************************************)
(* What a child process does: subprocess.run either raises (the process    *)
(* could not be launched) or completes with an exit status and the two     *)
(* captured streams.                                                       *)
(***************************************************************************)
Completed(rc, out, err) ==
  [raised |-> FALSE, returncode |-> rc, stdout |-> out, stderr |-> err,
   exc |-> EmptyText]

Raised(msg) ==
  [raised |-> TRUE, returncode |-> 0 - 1, stdout |-> EmptyText,
   stderr |-> EmptyText, exc |-> msg]

\* Outcomes of the probe, library and compile commands: their text is
\* printed or stored, never inspected.
ToolProcs ==
  { Completed(0, EmptyText, EmptyText),
    Completed(1, EmptyText, ErrorText),
    Raised(FaultText) }

\* The texts the simulator writes in a full run.
SimTexts == { EmptyText, ErrorText, PassedText }

SimProcsOver(texts) ==
  { Completed(rc, out, err) : rc \in {0, 1}, out \in texts, err \in texts }
    \cup { Raised(FaultText) }

\* The simulator outcomes of a full run: run_command hands over one stream
\* and drops the other, which is left empty here.
OneStreamProcs(texts) ==
  { Completed(0, t, EmptyText) : t \in texts }
    \cup { Completed(1, EmptyText, t) : t \in texts }
    \cup { Raised(FaultText) }

SimProcs == OneStreamProcs(SimTexts)

\* The simulator outcomes of the check of the streams: any one-fragment
\* text, or none, on either stream.
StreamProcs == SimProcsOver(TextsUpTo(1))

\* The simulator outcomes of the classification check.
WideSimProcs ==
  { Completed(0, t, EmptyText) : t \in TextsUpTo(MaxFrags) }
    \cup { Completed(1, EmptyText, t) : t \in TextsUpTo(MaxFrags) }
    \cup { Raised(FaultText) }

(***************************************************************************)
(* Pure parts of TestRunner.                                               *)
(***************************************************************************)
\* Mutation: the standard output is handed over whatever the exit status.
run_command_stdout_only(proc, capture_output) ==
  IF proc.raised THEN << FALSE, proc.exc >>
  ELSE << proc.returncode = 0, proc.stdout >>

\* run_command: the (success, output) pair handed to the caller.
run_command(proc, capture_output) ==
  IF proc.raised THEN << FALSE, proc.exc >>
  ELSE IF proc.returncode = 0
       THEN << TRUE, IF capture_output THEN proc.stdout ELSE EmptyText >>
       ELSE << FALSE, IF capture_output THEN proc.stderr ELSE EmptyText >>

\* Mutation: a simulation that exits successfully without any marker passes.
classify_status_success_passes(output, success) ==
  IF output # EmptyText
  THEN LET output_lower == Lower(output) IN
       IF Contains(STR_error, output_lower)
            /\ ~Contains(STR_0_errors, output_lower)
       THEN "FAILED"
       ELSE IF \/ Contains(STR_yahoo, output_lower)
               \/ Contains(STR_test_passed, output_lower)
               \/ Contains(STR_success, output_lower)
       THEN "PASSED"
       ELSE IF success THEN "PASSED"
       ELSE "FAILED"
  ELSE IF success THEN "PASSED" ELSE "FAILED"

\* Mutation: the pass markers are looked for before the error marker.
classify_status_pass_first(output, success) ==
  IF output # EmptyText
  THEN LET output_lower == Lower(output) IN
       IF \/ Contains(STR_yahoo, output_lower)
          \/ Contains(STR_test_passed, output_lower)
          \/ Contains(STR_success, output_lower)
       THEN "PASSED"
       ELSE IF Contains(STR_error, output_lower)
                 /\ ~Contains(STR_0_errors, output_lower)
       THEN "FAILED"
       ELSE IF success THEN "COMPLETED"
       ELSE "FAILED"
  ELSE IF success THEN "COMPLETED" ELSE "FAILED"

\* run_testbench, "Check for common success/failure patterns in output".
classify_status(output, success) ==
  IF output # EmptyText
  THEN LET output_lower == Lower(output) IN
       IF Contains(STR_error, output_lower)
            /\ ~Contains(STR_0_errors, output_lower)
       THEN "FAILED"
       ELSE IF \/ Contains(STR_yahoo, output_lower)
               \/ Contains(STR_test_passed, output_lower)
               \/ Contains(STR_success, output_lower)
       THEN "PASSED"
       ELSE IF success THEN "COMPLETED"
       ELSE "FAILED"
  ELSE IF success THEN "COMPLETED" ELSE "FAILED"

\* run_testbench: the record returned when the testbench does not compile.
compile_failed_outcome(display_name, duration, output) ==
  [name |-> display_name, status |-> "COMPILE_FAILED",
   duration |-> duration, error |-> output]

\* run_testbench: the record returned after the simulation.
simulated_outcome(display_name, tb_module, status, duration, output) ==
  [name |-> display_name, module |-> tb_module, status |-> status,
   duration |-> duration, output |-> output]

CountStatus(rs, status) ==
  Cardinality({ i \in 1..Len(rs) : rs[i].status = status })

\* Mutation: testbenches that did not compile are not counted as failures.
print_summary_ignoring_compile_failed(rs) ==
  IF CountStatus(rs, "FAILED") > 0
  THEN [overall |-> "FAILURES DETECTED", ret |-> FALSE]
  ELSE IF CountStatus(rs, "PASSED") > 0
  THEN [overall |-> "ALL TESTS PASSED", ret |-> TRUE]
  ELSE [overall |-> "TESTS COMPLETED", ret |-> TRUE]

\* print_summary: the OVERALL line it prints and the value it returns.
print_summary(rs) ==
  LET passed == CountStatus(rs, "PASSED")
      failed == CountStatus(rs, "FAILED")
      compile_failed == CountStatus(rs, "COMPILE_FAILED")
  IN  IF compile_failed > 0 \/ failed > 0
      THEN [overall |-> "FAILURES DETECTED", ret |-> FALSE]
      ELSE IF passed > 0
      THEN [overall |-> "ALL TESTS PASSED", ret |-> TRUE]
      ELSE [overall |-> "TESTS COMPLETED", ret |-> TRUE]

\* Mutation: every set of 'all' mode compiles unless --skip-compile is given.
all_mode_skip_compile_args_only(args_skip_compile, test_set) ==
  args_skip_compile

\* main: the skip_compile argument of the run of test_set in 'all' mode.
all_mode_skip_compile(args_skip_compile, test_set) ==
  args_skip_compile \/ (test_set # TestSetKeys[1])

(***************************************************************************)
(* State.                                                                  *)
(***************************************************************************)
VARIABLES
  args,            \* parsed command line: [skip_compile]
  pc,              \* control position
  selected_set,    \* main: the selected set, or "all"
  set_idx,         \* main: position of the 'all' loop in TestSetKeys
  overall_success, \* main: aggregate of the 'all' loop
  exit_code,       \* argument of sys.exit, -1 while running
  test_set,        \* run: test_set
  skip_compile,    \* run: skip_compile
  results,         \* TestRunner.results
  file_idx,        \* compile_design: position in the file list
  failed_files,    \* compile_design: failed_files
  compiled_count,  \* compile_design: compiled_count
  tb_idx,          \* run_all_testbenches: position in the set
  start,           \* run_testbench: start
  cmd_success,     \* success of the last run_command
  cmd_output,      \* output of the last run_command
  overall,         \* OVERALL line of print_summary, "none" before it
  run_result,      \* value returned by run, read at pc = "run_return"
  cmds,            \* history: the commands issued by the current run
  child,           \* history: what the child process of the last command did
  missing,         \* history: design files found missing by the current run
  work,            \* the work library on disk
  report_file,     \* test_results.json on disk
  saved,           \* history: save_results was executed by the current run
  produced,        \* history: names of the outcomes appended since main began
  runs             \* history: the runs that returned, in order

vars ==
  << args, pc, selected_set, set_idx, overall_success, exit_code, test_set,
     skip_compile, results, file_idx, failed_files, compiled_count, tb_idx,
     start, cmd_success, cmd_output, overall, run_result, cmds, child,
     missing, work, report_file, saved, produced, runs >>

mainVars == << args, selected_set, set_idx, overall_success, exit_code, runs >>

runArgs == << test_set, skip_compile >>

designVars == << file_idx, failed_files, compiled_count, missing >>

\* datetime.now(): a logical clock that advances with every command issued.
Now(log) == Len(log)

Issued(by, tool, arg, ok) == [by |-> by, tool |-> tool, arg |-> arg, ok |-> ok]

(***************************************************************************)
(* The work library, as far as the script can tell its states apart: the   *)
(* directory exists or not, it holds units compiled before main began      *)
(* (stale) or not, and units compiled since main began (fresh) or not;     *)
(* and, for each testbench module name, the file its definition in the     *)
(* library was compiled from.                                              *)
(***************************************************************************)
\* The module names of the testbench entries.
TbModules ==
  UNION { { Testbenches(k)[i].module : i \in 1..Len(Testbenches(k)) } :
          k \in DOMAIN TESTBENCH_SETS }

\* The library holds no definition of the module.
NoSource == TbPath("", "")

\* The definition was compiled before main began, from a file main does not
\* know.
StaleSource == TbPath("?", "?")

\* TESTBENCH_SETS: "module" is the actual module name in the .sv file.
ModulesIn(tb_path) ==
  { m \in TbModules :
      \E k \in DOMAIN TESTBENCH_SETS :
        \E i \in 1..Len(TESTBENCH_SETS[k]) :
          /\ TESTBENCH_SETS[k][i].path = tb_path
          /\ TESTBENCH_SETS[k][i].module = m }

NoLibrary ==
  [exists |-> FALSE, stale |-> FALSE, fresh |-> FALSE,
   units |-> [m \in TbModules |-> NoSource]]

StaleLibrary ==
  [exists |-> TRUE, stale |-> TRUE, fresh |-> FALSE,
   units |-> [m \in TbModules |-> StaleSource]]

\* "vdel -all -lib work": the library is gone if the command succeeds.
vdel(lib, ok) == IF ok THEN NoLibrary ELSE lib

\* "vlib work": the directory exists if the command succeeds; what an
\* existing library holds is not touched.
vlib(lib, ok) == IF ok THEN [lib EXCEPT !.exists = TRUE] ELSE lib

\* "vlog -sv -work work <file>": the units of the file are in the library
\* if the command succeeds: a module the file defines is held as compiled
\* from this file, whatever the library held under that name.
vlog(lib, file, modules, ok) ==
  IF ok
  THEN [lib EXCEPT !.exists = TRUE, !.fresh = TRUE,
                   !.units = [m \in TbModules |->
                                IF m \in modules THEN file ELSE @[m]]]
  ELSE lib

\* test_results.json, kept by the names of its outcome records.
NoReport == [written |-> FALSE, results |-> << >>]

\* save_results: json.dump of the report over the file.
save_results(rs) ==
  [written |-> TRUE, results |-> [i \in 1..Len(rs) |-> rs[i].name]]

\* No command was issued yet.
NoChild == Completed(0, EmptyText, EmptyText)

\* The state of a freshly constructed TestRunner (and of its locals).
FreshRunner ==
  /\ results = << >>
  /\ file_idx = 1
  /\ failed_files = << >>
  /\ compiled_count = 0
  /\ tb_idx = 1
  /\ start = 0
  /\ cmd_success = FALSE
  /\ cmd_output = EmptyText
  /\ overall = "none"
  /\ run_result = FALSE
  /\ cmds = << >>
  /\ child = NoChild
  /\ missing = << >>

Init ==
  /\ args \in [skip_compile : BOOLEAN]
  /\ pc = "main"
  /\ selected_set = "None"
  /\ set_idx = 0
  /\ overall_success = TRUE
  /\ exit_code = -1
  /\ test_set = "None"
  /\ skip_compile = FALSE
  /\ runs = << >>
  /\ work \in {NoLibrary, StaleLibrary}
  /\ report_file = NoReport
  /\ saved = FALSE
  /\ produced = << >>
  /\ FreshRunner

(***************************************************************************)
(* Decisions of the handlers, as functions of what they read.              *)
(***************************************************************************)
\* Mutation: the library is set up even when skip_compile is requested.
run_next_phase_always_compiles(skip) == "create_work_library"

\* run: the phase that follows a successful check_modelsim.
run_next_phase(skip) ==
  IF ~skip THEN "create_work_library" ELSE "run_all_testbenches"

\* Mutation: the probe's failure is ignored.
check_modelsim_always_true(success) == TRUE

\* check_modelsim: its return value, given the success of "vlog -version".
check_modelsim(success) == success

\* create_work_library: its return value, given the success of "vlib work"
\* (the success of "vdel" is overwritten).
create_work_library(vlib_success) == vlib_success

\* Mutation: a missing file is recorded as failed.
compile_design_file_missing_fails(file, exists, r, failed, count) ==
  IF exists /\ r[1]
  THEN [failed_files |-> failed, compiled_count |-> count + 1]
  ELSE [failed_files |-> Append(failed, file), compiled_count |-> count]

\* compile_design: the body of the loop for one file.  exists is
\* file_path.exists(), r the pair returned by run_command.
compile_design_file(file, exists, r, failed, count) ==
  IF ~exists
  THEN [failed_files |-> failed, compiled_count |-> count]
  ELSE IF r[1]
       THEN [failed_files |-> failed, compiled_count |-> count + 1]
       ELSE [failed_files |-> Append(failed, file), compiled_count |-> count]

\* Mutation: the loop stops at the first failure.
compile_design_next_fail_fast(idx, r) ==
  IF r[1] THEN idx + 1 ELSE Len(DesignFiles) + 1

\* compile_design: the file the loop turns to after the one at idx.
compile_design_next(idx, r) == idx + 1

\* Mutation: failed files are not reported.
compile_design_ignoring_failures(failed) == TRUE

\* compile_design: its return value once the list is traversed.
compile_design(failed) == failed = << >>

\* Mutation: the compile result is not looked at.
tb_compile_never_failed(success) == FALSE

\* run_testbench: "if not success" after the compile command.
tb_compile_failed(success) == ~success

\* Mutation: an outcome without a simulation is not recorded.
append_result_simulated_only(rs, result) ==
  IF result.status = "COMPILE_FAILED" THEN rs ELSE Append(rs, result)

\* run_all_testbenches: self.results.append(result)
append_result(rs, result) == Append(rs, result)

\* Mutation: the last run decides.
aggregate_success_last_wins(acc, success) == success

\* main, 'all' mode: "if not success: overall_success = False"
aggregate_success(acc, success) == IF ~success THEN FALSE ELSE acc

\* Mutation: the exit code does not depend on the result.
exit_status_always_zero(success) == 0

\* main: "sys.exit(0 if success else 1)"
exit_status(success) == IF success THEN 0 ELSE 1

(***************************************************************************)
(* main                                                                    *)
(***************************************************************************)
runnerVars ==
  << results, file_idx, failed_files, compiled_count, tb_idx, start,
     cmd_success, cmd_output, overall, run_result, cmds, child, missing >>

\* "Error: Directory does not exist", sys.exit(1)
MainDirMissing ==
  /\ pc = "main"
  /\ pc' = "exit"
  /\ exit_code' = 1
  /\ UNCHANGED << args, selected_set, set_idx, overall_success, runs,
                  runArgs, runnerVars >>
  /\ UNCHANGED << work, report_file, saved, produced >>

\* selected_set: the value of --set, or the answer of interactive_menu when
\* --set is omitted; the menu may also be left ("None"), and main exits
\* with 0.
MainSelect ==
  /\ pc = "main"
  /\ \E choice \in TestSetNames \cup {"all", "None"} :
       IF choice = "None"
       THEN /\ pc' = "exit"
            /\ exit_code' = 0
            /\ UNCHANGED << selected_set, set_idx >>
       ELSE /\ pc' = "start_run"
            /\ selected_set' = choice
            /\ set_idx' = 1
            /\ UNCHANGED exit_code
  /\ UNCHANGED << args, overall_success, runs, runArgs, runnerVars >>
  /\ UNCHANGED << work, report_file, saved, produced >>

\* runner = TestRunner(project_dir); runner.run(skip_compile, test_set)
StartRun ==
  /\ pc = "start_run"
  /\ test_set' = IF selected_set = "all" THEN TestSetKeys[set_idx]
                 ELSE selected_set
  /\ skip_compile' = IF selected_set = "all"
                     THEN all_mode_skip_compile(args.skip_compile,
                                                TestSetKeys[set_idx])
                     ELSE args.skip_compile
  /\ results' = << >>
  /\ file_idx' = 1
  /\ failed_files' = << >>
  /\ compiled_count' = 0
  /\ tb_idx' = 1
  /\ start' = 0
  /\ cmd_success' = FALSE
  /\ cmd_output' = EmptyText
  /\ overall' = "none"
  /\ run_result' = FALSE
  /\ cmds' = << >>
  /\ child' = NoChild
  /\ missing' = << >>
  /\ pc' = "check_modelsim"
  /\ UNCHANGED mainVars
  /\ saved' = FALSE
  /\ UNCHANGED << work, report_file, produced >>

\* The handlers of run that precede the testbenches.
SetupHandlers == {"check_modelsim", "create_work_library", "compile_design"}

\* What is remembered of a run that returned: its arguments, its return
\* value, its OVERALL line, the commands issued before the testbenches (by
\* whom, and which), which of them failed, and the number of outcomes in
\* its result list.
RunRecord ==
  LET setup == { i \in 1..Len(cmds) : cmds[i].by \in SetupHandlers } IN
  [test_set |-> test_set, skip_compile |-> skip_compile,
   result |-> run_result, overall |-> overall,
   issued |-> { << cmds[i].by, cmds[i].tool >> : i \in setup },
   failed |-> { << cmds[i].by, cmds[i].tool >> :
                  i \in { j \in setup : ~cmds[j].ok } },
   nresults |-> Len(results)]

\* run has returned to main.
RunReturn ==
  /\ pc = "run_return"
  /\ runs' = Append(runs, RunRecord)
  /\ IF selected_set = "all"
     THEN /\ overall_success' = aggregate_success(overall_success, run_result)
          /\ IF set_idx < Len(TestSetKeys)
             THEN /\ set_idx' = set_idx + 1
                  /\ pc' = "start_run"
                  /\ UNCHANGED exit_code
             ELSE /\ pc' = "exit"
                  /\ exit_code' = exit_status(overall_success')
                  /\ UNCHANGED set_idx
     ELSE /\ pc' = "exit"
          /\ exit_code' = exit_status(run_result)
          /\ UNCHANGED << overall_success, set_idx >>
  /\ UNCHANGED << args, selected_set, runArgs, runnerVars >>
  /\ UNCHANGED << work, report_file, saved, produced >>

(***************************************************************************)
(* TestRunner.run                                                          *)
(***************************************************************************)
\* run_command(cmd): the command is logged and its result kept.  proc is
\* what the child process does, r the pair run_command returns for it.
Command(by, tool, arg, proc, r) ==
  /\ child' = proc
  /\ cmds' = Append(cmds, Issued(by, tool, arg, r[1]))
  /\ cmd_success' = r[1]
  /\ cmd_output' = r[2]

Return(value) ==
  /\ pc' = "run_return"
  /\ run_result' = value

CheckModelsim ==
  /\ pc = "check_modelsim"
  /\ \E proc \in ToolProcs :
       LET r == run_command(proc, TRUE) IN
       /\ Command("check_modelsim", "vlog -version", "", proc, r)
       /\ IF check_modelsim(r[1])
          THEN /\ pc' = run_next_phase(skip_compile)
               /\ UNCHANGED run_result
          ELSE Return(FALSE)
  /\ UNCHANGED << mainVars, runArgs, results, designVars, tb_idx, start,
                  overall >>
  /\ UNCHANGED << work, report_file, saved, produced >>

\* create_work_library, work_path.exists(): "vdel -all -lib work"
RemoveWorkLibrary ==
  /\ pc = "create_work_library"
  /\ work.exists
  /\ \E proc \in ToolProcs :
       LET r == run_command(proc, TRUE) IN
       /\ Command("create_work_library", "vdel", WORK_LIB, proc, r)
       /\ work' = vdel(work, r[1])
  /\ pc' = "vlib"
  /\ UNCHANGED << mainVars, runArgs, results, designVars, tb_idx, start,
                  overall, run_result >>
  /\ UNCHANGED << report_file, saved, produced >>

\* create_work_library, no work directory: nothing to remove.
NoWorkLibrary ==
  /\ pc = "create_work_library"
  /\ ~work.exists
  /\ pc' = "vlib"
  /\ UNCHANGED << mainVars, runArgs, runnerVars >>
  /\ UNCHANGED << work, report_file, saved, produced >>

\* create_work_library: "vlib work"
CreateWorkLibrary ==
  /\ pc = "vlib"
  /\ \E proc \in ToolProcs :
       LET r == run_command(proc, TRUE) IN
       /\ Command("create_work_library", "vlib", WORK_LIB, proc, r)
       /\ work' = vlib(work, r[1])
       /\ IF create_work_library(r[1])
          THEN pc' = "compile_design" /\ UNCHANGED run_result
          ELSE Return(FALSE)
  /\ UNCHANGED << mainVars, runArgs, results, designVars, tb_idx, start,
                  overall >>
  /\ UNCHANGED << report_file, saved, produced >>

\* compile_design: a file of the list that is not on disk is skipped.
CompileDesignSkip ==
  /\ pc = "compile_design"
  /\ file_idx <= Len(DesignFiles)
  /\ LET file == DesignFiles[file_idx]
         loc == compile_design_file(file, FALSE, << FALSE, EmptyText >>,
                                    failed_files, compiled_count)
     IN  /\ failed_files' = loc.failed_files
         /\ compiled_count' = loc.compiled_count
         /\ missing' = Append(missing, file)
  /\ file_idx' = file_idx + 1
  /\ UNCHANGED << mainVars, runArgs, pc, results, tb_idx, start, cmd_success,
                  cmd_output, overall, run_result, cmds, child >>
  /\ UNCHANGED << work, report_file, saved, produced >>

\* compile_design: "vlog -sv -work work <file>" for a file that is on disk.
CompileDesignFile ==
  /\ pc = "compile_design"
  /\ file_idx <= Len(DesignFiles)
  /\ \E proc \in ToolProcs :
       LET file == DesignFiles[file_idx]
           r == run_command(proc, TRUE)
           loc == compile_design_file(file, TRUE, r, failed_files,
                                      compiled_count)
       IN  /\ Command("compile_design", "vlog", file, proc, r)
           \* a design file defines none of the testbench modules
           /\ work' = vlog(work, file, {}, r[1])
           /\ failed_files' = loc.failed_files
           /\ compiled_count' = loc.compiled_count
           /\ file_idx' = compile_design_next(file_idx, r)
  /\ UNCHANGED << mainVars, runArgs, pc, results, tb_idx, start, overall,
                  run_result, missing >>
  /\ UNCHANGED << report_file, saved, produced >>

\* compile_design returns; run goes on or gives up.
CompileDesignReturn ==
  /\ pc = "compile_design"
  /\ file_idx > Len(DesignFiles)
  /\ IF compile_design(failed_files)
     THEN pc' = "run_all_testbenches" /\ UNCHANGED run_result
     ELSE Return(FALSE)
  /\ UNCHANGED << mainVars, runArgs, results, designVars, tb_idx, start,
                  cmd_success, cmd_output, overall, cmds, child >>
  /\ UNCHANGED << work, report_file, saved, produced >>

\* run_testbench: "vlog -sv -work work <tb_path>"
TbCompile ==
  /\ pc = "run_all_testbenches"
  /\ tb_idx <= Len(Testbenches(test_set))
  /\ \E proc \in ToolProcs :
       LET tb == Testbenches(test_set)[tb_idx]
           display_name == Stem(tb.path)
           r == run_command(proc, TRUE)
       IN  /\ start' = Now(cmds)
           /\ Command("run_testbench", "vlog", tb.path, proc, r)
           /\ work' = vlog(work, tb.path, ModulesIn(tb.path), r[1])
           /\ IF tb_compile_failed(r[1])
              THEN /\ results' =
                        append_result(results,
                          compile_failed_outcome(display_name,
                                                 Now(cmds') - start', r[2]))
                   /\ produced' = Append(produced, display_name)
                   /\ tb_idx' = tb_idx + 1
                   /\ UNCHANGED pc
              ELSE /\ pc' = "vsim"
                   /\ UNCHANGED << results, tb_idx, produced >>
  /\ UNCHANGED << mainVars, runArgs, designVars, overall, run_result >>
  /\ UNCHANGED << report_file, saved >>

\* run_testbench: "vsim ... work.<tb_module>", classification, and the
\* append of run_all_testbenches.
TbSimulate(procs) ==
  /\ pc = "vsim"
  /\ \E proc \in procs :
       LET tb == Testbenches(test_set)[tb_idx]
           display_name == Stem(tb.path)
           r == run_command(proc, TRUE)
           status == classify_status(r[2], r[1])
       IN  /\ Command("run_testbench", "vsim", tb.module, proc, r)
           /\ results' =
                append_result(results,
                  simulated_outcome(display_name, tb.module, status,
                                    Now(cmds') - start, r[2]))
           /\ produced' = Append(produced, display_name)
  /\ tb_idx' = tb_idx + 1
  /\ pc' = "run_all_testbenches"
  /\ UNCHANGED << mainVars, runArgs, designVars, start, overall, run_result >>
  /\ UNCHANGED << work, report_file, saved >>

Simulate == TbSimulate(SimProcs)

\* run: print_summary, save_results, return success.
Summary ==
  /\ pc = "run_all_testbenches"
  /\ tb_idx > Len(Testbenches(test_set))
  /\ LET s == print_summary(results) IN
       /\ overall' = s.overall
       /\ report_file' = save_results(results)
       /\ saved' = TRUE
       /\ Return(s.ret)
  /\ UNCHANGED << mainVars, runArgs, results, designVars, tb_idx, start,
                  cmd_success, cmd_output, cmds, child >>
  /\ UNCHANGED << work, produced >>

Next ==
  \/ MainDirMissing
  \/ MainSelect
  \/ StartRun
  \/ RunReturn
  \/ CheckModelsim
  \/ RemoveWorkLibrary
  \/ NoWorkLibrary
  \/ CreateWorkLibrary
  \/ CompileDesignSkip
  \/ CompileDesignFile
  \/ CompileDesignReturn
  \/ TbCompile
  \/ Simulate
  \/ Summary

Spec == Init /\ [][Next]_vars

(***************************************************************************)
(* The classification alone: a testbench has just been compiled, and the   *)
(* simulator answers with any text of at most MaxFrags fragments.          *)
(***************************************************************************)
ClassifyInit ==
  /\ args \in [skip_compile : {TRUE}]
  /\ pc = "vsim"
  /\ selected_set \in TestSetNames
  /\ set_idx = 1
  /\ overall_success = TRUE
  /\ exit_code = -1
  /\ test_set = selected_set
  /\ skip_compile = TRUE
  /\ runs = << >>
  /\ results = << >>
  /\ file_idx = 1
  /\ failed_files = << >>
  /\ compiled_count = 0
  /\ tb_idx = 1
  /\ start = 1
  /\ cmd_success = TRUE
  /\ cmd_output = EmptyText
  /\ overall = "none"
  /\ run_result = FALSE
  /\ cmds = << Issued("check_modelsim", "vlog -version", "", TRUE),
               Issued("run_testbench", "vlog",
                      Testbenches(test_set)[1].path, TRUE) >>
  /\ child = Completed(0, EmptyText, EmptyText)
  /\ missing = << >>
  /\ work = vlog(StaleLibrary, Testbenches(test_set)[1].path,
                 ModulesIn(Testbenches(test_set)[1].path), TRUE)
  /\ report_file = NoReport
  /\ saved = FALSE
  /\ produced = << >>

ClassifyNext == TbSimulate(WideSimProcs)

SpecClassify == ClassifyInit /\ [][ClassifyNext]_vars

(***************************************************************************)
(* The two streams of the simulator: a testbench has just been compiled,   *)
(* and the simulator writes to its standard output and standard error.     *)
(***************************************************************************)
StreamsNext == TbSimulate(StreamProcs)

SpecStreams == ClassifyInit /\ [][StreamsNext]_vars

(***************************************************************************)
(* The reporter alone: print_summary over any result list of at most       *)
(* MaxResults outcomes, the empty one included.                            *)
(***************************************************************************)
OutcomePool ==
  LET tb == TESTBENCH_SETS["tests"][1] IN
  { compile_failed_outcome(Stem(tb.path), 1, ErrorText) }
    \cup { simulated_outcome(Stem(tb.path), tb.module, st, 2, EmptyText) :
             st \in {"FAILED", "PASSED", "COMPLETED"} }

ReporterInit ==
  /\ args \in [skip_compile : {TRUE}]
  /\ pc = "run_all_testbenches"
  /\ selected_set = "tests"
  /\ set_idx = 1
  /\ overall_success = TRUE
  /\ exit_code = -1
  /\ test_set = selected_set
  /\ skip_compile = TRUE
  /\ runs = << >>
  /\ results \in UNION { [1..n -> OutcomePool] : n \in 0..MaxResults }
  /\ file_idx = 1
  /\ failed_files = << >>
  /\ compiled_count = 0
  /\ tb_idx = Len(Testbenches(test_set)) + 1
  /\ start = 0
  /\ cmd_success = TRUE
  /\ cmd_output = EmptyText
  /\ overall = "none"
  /\ run_result = FALSE
  /\ cmds = << Issued("check_modelsim", "vlog -version", "", TRUE) >>
  /\ child = Completed(0, EmptyText, EmptyText)
  /\ missing = << >>
  /\ work = StaleLibrary
  /\ report_file = NoReport
  /\ saved = FALSE
  /\ produced = [i \in 1..Len(results) |-> results[i].name]

ReporterNext == Summary

SpecReporter == ReporterInit /\ [][ReporterNext]_vars

(***************************************************************************)
(* Vocabulary of the properties, read off the command log of the run.      *)
(***************************************************************************)
IsProbe(c) == c.by = "check_modelsim"
IsVlib(c) == c.by = "create_work_library" /\ c.tool = "vlib"
IsDesignCompile(c) == c.by = "compile_design"
IsTbCompile(c) == c.by = "run_testbench" /\ c.tool = "vlog"
IsSimulate(c) == c.by = "run_testbench" /\ c.tool = "vsim"

ProbeFailed == \E i \in 1..Len(cmds) : IsProbe(cmds[i]) /\ ~cmds[i].ok
LibraryFailed == \E i \in 1..Len(cmds) : IsVlib(cmds[i]) /\ ~cmds[i].ok
DesignFailed == \E i \in 1..Len(cmds) : IsDesignCompile(cmds[i]) /\ ~cmds[i].ok

\* The run was given up before the testbenches.
Aborted == ProbeFailed \/ LibraryFailed \/ DesignFailed

\* run has returned (main may have moved on, the runner is still there).
RunOver == pc \in {"run_return", "start_run", "exit"} /\ cmds # << >>

DesignCmds == SelectSeq(cmds, IsDesignCompile)
TbCompiles == SelectSeq(cmds, IsTbCompile)
Simulations == SelectSeq(cmds, IsSimulate)

\* The three-way verdict named by the OVERALL line.
Verdict(line) ==
  CASE line = "FAILURES DETECTED" -> "FAIL"
    [] line = "ALL TESTS PASSED" -> "PASS"
    [] line = "TESTS COMPLETED" -> "INCONCLUSIVE"
    [] OTHER -> "none"

(***************************************************************************)
(* C1                                                                      *)
(***************************************************************************)
NamesInOrder(rs, tbs) ==
  \A i \in 1..Len(rs) : i <= Len(tbs) /\ rs[i].name = Stem(tbs[i].path)

\* C1: a run that is not given up at the probe, the library creation or the
\* design compilation ends with exactly one outcome per testbench of its
\* set in the result list, in the order of the set, whatever the outcomes
\* are; while the testbenches are running, the list holds one outcome for
\* each testbench already finished.
C1_OneOutcomePerTestbench ==
  /\ pc \in {"run_all_testbenches", "vsim"} =>
       /\ Len(results) = tb_idx - 1
       /\ NamesInOrder(results, Testbenches(test_set))
  /\ (RunOver /\ ~Aborted) =>
       /\ Len(results) = Len(Testbenches(test_set))
       /\ NamesInOrder(results, Testbenches(test_set))

\* A run that returned with a COMPILE_FAILED first testbench followed by a
\* FAILED second one.
C1_Witness ==
  /\ pc = "run_return"
  /\ ~Aborted
  /\ Len(results) >= 2
  /\ results[1].status = "COMPILE_FAILED"
  /\ results[2].status = "FAILED"

(***************************************************************************)
(* C2                                                                      *)
(***************************************************************************)
\* C2: once compile_design has recorded a failed file, the run attempts no
\* testbench (no testbench compile, no simulate, an empty result list) and
\* returns False without a PASS or INCONCLUSIVE verdict.
C2_DesignFailureStopsRun ==
  (failed_files # << >> \/ DesignFailed) =>
     /\ results = << >>
     /\ TbCompiles = << >>
     /\ Simulations = << >>
     /\ pc \in {"compile_design", "run_return", "start_run", "exit"}
     /\ Verdict(overall) \notin {"PASS", "INCONCLUSIVE"}
     /\ RunOver => ~run_result

\* A run that returned after a design file failed to compile.
C2_Witness ==
  /\ pc = "run_return"
  /\ failed_files # << >>
  /\ Len(DesignCmds) = Len(DesignFiles)

(***************************************************************************)
(* C3                                                                      *)
(***************************************************************************)
\* needle (lower case) occurs in text, letter case ignored.
OccursIgnoringCase(needle, text) ==
  \E k \in 1..Len(text) :
    /\ k + Len(needle) - 1 <= Len(text)
    /\ \A j \in 1..Len(needle) : LowerChar(text[k + j - 1]) = needle[j]

\* The precedence the classification is said to follow.
StatedStatus(text, exited_ok) ==
  IF Len(text) = 0
  THEN IF exited_ok THEN "COMPLETED" ELSE "FAILED"
  ELSE IF OccursIgnoringCase(STR_error, text)
            /\ ~OccursIgnoringCase(STR_0_errors, text)
  THEN "FAILED"
  ELSE IF \E m \in {STR_yahoo, STR_test_passed, STR_success} :
            OccursIgnoringCase(m, text)
  THEN "PASSED"
  ELSE IF exited_ok THEN "COMPLETED"
  ELSE "FAILED"

\* The last command of the log is a simulation, so cmd_output and
\* cmd_success are what it returned and the last outcome is its outcome.
JustSimulated ==
  /\ cmds # << >>
  /\ IsSimulate(cmds[Len(cmds)])
  /\ results # << >>

\* C3: the status of a simulated testbench is the stated function of the
\* captured text and of the simulator's exit success: "error" without
\* "0 errors" gives FAILED, else a pass marker gives PASSED, else a
\* successful exit gives COMPLETED, else FAILED (letter case ignored; empty
\* text: COMPLETED on a successful exit, else FAILED).  The text
\* "ERROR: 2 errors" is FAILED for either exit status, "0 errors, 0 warnings"
\* with a successful exit is COMPLETED, "TEST PASSED" with a successful exit
\* is PASSED.
C3_StatusFollowsPrecedence ==
  JustSimulated =>
    LET last == results[Len(results)] IN
    /\ last.output = cmd_output
    /\ last.status = StatedStatus(cmd_output, cmd_success)
    /\ cmd_output = ErrorText => last.status = "FAILED"
    /\ (cmd_output = ZeroErrorsText /\ cmd_success) => last.status = "COMPLETED"
    /\ (cmd_output = PassedText /\ cmd_success) => last.status = "PASSED"

\* A simulation that exited nonzero with a text holding "error", "0 errors"
\* and a pass marker: rule (1) does not apply and rule (2) gives PASSED.
C3_Witness ==
  /\ JustSimulated
  /\ ~cmd_success
  /\ OccursIgnoringCase(STR_error, cmd_output)
  /\ OccursIgnoringCase(STR_0_errors, cmd_output)
  /\ OccursIgnoringCase(STR_test_passed, cmd_output)
  /\ results[Len(results)].status = "PASSED"

(***************************************************************************)
(* C4                                                                      *)
(***************************************************************************)
\* C4: the i-th outcome is COMPILE_FAILED exactly when the compile command
\* of the i-th testbench failed; a simulate command is only ever issued
\* right after a successful compile command of a testbench, so none is
\* issued for a testbench whose compile failed, and there are as many
\* simulations as testbenches that compiled.
C4_CompileFailedIffNotSimulated ==
  /\ \A i \in 1..Len(results) :
       /\ i <= Len(TbCompiles)
       /\ (results[i].status = "COMPILE_FAILED") <=> ~TbCompiles[i].ok
  /\ \A k \in 1..Len(cmds) :
       /\ IsSimulate(cmds[k]) =>
            k > 1 /\ IsTbCompile(cmds[k - 1]) /\ cmds[k - 1].ok
       /\ (IsTbCompile(cmds[k]) /\ ~cmds[k].ok /\ k < Len(cmds)) =>
            ~IsSimulate(cmds[k + 1])
  /\ Len(Simulations) =
       Cardinality({ i \in 1..Len(results) :
                       results[i].status # "COMPILE_FAILED" })

\* The first testbench failed to compile and the second one was simulated.
C4_Witness ==
  /\ Len(results) >= 2
  /\ results[1].status = "COMPILE_FAILED"
  /\ results[2].status # "COMPILE_FAILED"
  /\ Len(Simulations) = 1

(***************************************************************************)
(* C5                                                                      *)
(***************************************************************************)
StatedVerdict(rs) ==
  IF \E i \in 1..Len(rs) : rs[i].status \in {"COMPILE_FAILED", "FAILED"}
  THEN "FAIL"
  ELSE IF \E i \in 1..Len(rs) : rs[i].status = "PASSED"
  THEN "PASS"
  ELSE "INCONCLUSIVE"

\* C5: once the summary is printed, its verdict is FAIL if an outcome is
\* COMPILE_FAILED or FAILED, else PASS if an outcome is PASSED, else
\* INCONCLUSIVE (this includes the empty result list), and run returns
\* failure exactly for FAIL.
C5_ThreeWayVerdict ==
  overall # "none" =>
    /\ Verdict(overall) = StatedVerdict(results)
    /\ run_result <=> (Verdict(overall) # "FAIL")

\* The summary of the empty result list: INCONCLUSIVE, and run succeeds.
C5_Witness ==
  /\ pc = "run_return"
  /\ results = << >>
  /\ overall = "TESTS COMPLETED"
  /\ run_result

(***************************************************************************)
(* C6                                                                      *)
(***************************************************************************)
RunFailedSetup(r) ==
  \/ << "check_modelsim", "vlog -version" >> \in r.failed
  \/ << "create_work_library", "vlib" >> \in r.failed
  \/ << "compile_design", "vlog" >> \in r.failed

\* C6: when main exits after running at least one set, the exit code is 0
\* exactly if every run ended with verdict PASS or INCONCLUSIVE, and it is
\* nonzero if a run's verdict is FAIL or its probe, library creation or
\* design compilation failed.
C6_ExitCode ==
  (pc = "exit" /\ runs # << >>) =>
    /\ (exit_code = 0) <=>
         \A i \in 1..Len(runs) :
           Verdict(runs[i].overall) \in {"PASS", "INCONCLUSIVE"}
    /\ (\E i \in 1..Len(runs) :
          Verdict(runs[i].overall) = "FAIL" \/ RunFailedSetup(runs[i]))
         => exit_code # 0

\* 'all' mode whose first set passed and whose last set was given up at the
\* probe: exit code 1.
C6_Witness ==
  /\ pc = "exit"
  /\ Len(runs) = Len(TestSetKeys)
  /\ Verdict(runs[1].overall) = "PASS"
  /\ << "check_modelsim", "vlog -version" >> \in runs[Len(runs)].failed
  /\ exit_code = 1

(***************************************************************************)
(* C7                                                                      *)
(***************************************************************************)
NotMissing(file) == \A i \in 1..Len(missing) : missing[i] # file

\* The files compile_design has dealt with so far.
Traversed == SubSeq(DesignFiles, 1, file_idx - 1)

\* compile_design has returned, and did so reporting failure: the run was
\* given up right there.
DesignReturned ==
  /\ \E i \in 1..Len(cmds) : IsVlib(cmds[i]) /\ cmds[i].ok
  /\ pc # "compile_design"

DesignReportedFailure ==
  /\ DesignReturned
  /\ RunOver
  /\ overall = "none"

\* C7: the compile commands of compile_design are, in order, exactly the
\* traversed files that were found on disk, one command each (so the loop
\* goes on after a failure); compile_design returns only after the whole
\* list, and reports failure exactly if a compile command of it failed.
C7_DesignCompileOrder ==
  /\ [i \in 1..Len(DesignCmds) |-> DesignCmds[i].arg]
       = SelectSeq(Traversed, NotMissing)
  /\ DesignReturned =>
       /\ file_idx = Len(DesignFiles) + 1
       /\ DesignReportedFailure <=> DesignFailed

\* compile_design reported failure after the first file failed and a later
\* file was still compiled, successfully.
C7_Witness ==
  /\ DesignReportedFailure
  /\ Len(DesignCmds) >= 2
  /\ ~DesignCmds[1].ok
  /\ DesignCmds[Len(DesignCmds)].ok

(***************************************************************************)
(* C8                                                                      *)
(***************************************************************************)
\* C8: a design file found missing gets no compile command, is not in
\* failed_files and is not counted as compiled (every traversed file is
\* exactly one of missing, failed, compiled); missing files alone never
\* make compile_design report failure, also when all files are missing.
C8_MissingFileSkipped ==
  /\ \A m \in 1..Len(missing) :
       /\ \A i \in 1..Len(DesignCmds) : DesignCmds[i].arg # missing[m]
       /\ \A i \in 1..Len(failed_files) : failed_files[i] # missing[m]
  /\ compiled_count =
       Cardinality({ i \in 1..Len(DesignCmds) : DesignCmds[i].ok })
  /\ Len(failed_files) =
       Cardinality({ i \in 1..Len(DesignCmds) : ~DesignCmds[i].ok })
  /\ Len(missing) + Len(failed_files) + compiled_count = file_idx - 1
  /\ (DesignReturned /\ ~DesignFailed) => ~DesignReportedFailure

\* Every design file is missing, and the run went on to its testbenches.
C8_Witness ==
  /\ Len(missing) = Len(DesignFiles)
  /\ DesignReturned
  /\ compiled_count = 0
  /\ TbCompiles # << >>

(***************************************************************************)
(* C9                                                                      *)
(***************************************************************************)
RunSetUpLibrary(r) ==
  \E c \in r.issued : c[1] \in {"create_work_library", "compile_design"}

\* C9: in 'all' mode the runs are those of the named sets in declared
\* order, whatever the earlier runs returned; only the run of the first set
\* creates the library or compiles the design, and only without
\* --skip-compile (every other run has skip_compile set); main exits with
\* a nonzero code exactly if a run returned failure.
C9_AllMode ==
  selected_set = "all" =>
    /\ Len(runs) <= Len(TestSetKeys)
    /\ \A i \in 1..Len(runs) :
         /\ runs[i].test_set = TestSetKeys[i]
         /\ runs[i].skip_compile <=> (args.skip_compile \/ i # 1)
         /\ RunSetUpLibrary(runs[i]) => (i = 1 /\ ~args.skip_compile)
    /\ pc = "exit" =>
         /\ Len(runs) = Len(TestSetKeys)
         /\ (exit_code # 0) <=> \E i \in 1..Len(runs) : ~runs[i].result

\* 'all' mode: the first run set up the library and failed, the last run
\* succeeded, and main exits with a nonzero code.
C9_Witness ==
  /\ selected_set = "all"
  /\ pc = "exit"
  /\ RunSetUpLibrary(runs[1])
  /\ ~runs[1].result
  /\ runs[Len(runs)].result
  /\ runs[Len(runs)].nresults > 0
  /\ exit_code # 0

(***************************************************************************)
(* C10                                                                     *)
(***************************************************************************)
\* C10: when the probe fails, it is the only command of the run: the run
\* returns False with an empty result list and without a summary.
C10_ProbeFailureShortCircuits ==
  ProbeFailed =>
    /\ Len(cmds) = 1
    /\ results = << >>
    /\ overall = "none"
    /\ pc \in {"run_return", "start_run", "exit"}
    /\ ~run_result

\* A run without --skip-compile that returned after a failed probe.
C10_Witness ==
  /\ ProbeFailed
  /\ ~skip_compile
  /\ pc = "run_return"

(***************************************************************************)
(* C11                                                                     *)
(***************************************************************************)
\* The positions at which main or run goes on after a command.
Positions ==
  {"main", "start_run", "check_modelsim", "create_work_library", "vlib",
   "compile_design", "run_all_testbenches", "vsim", "run_return", "exit"}

\* C11: after every command the caller holds a (success, text) pair and
\* goes on: a child that exited nonzero gives (False, its captured stderr),
\* a fault while launching the child gives (False, the fault message), and
\* the success flag is the one the caller logged.
C11_CommandNeverRaises ==
  cmds # << >> =>
    /\ pc \in Positions
    /\ cmd_success \in BOOLEAN
    /\ cmds[Len(cmds)].ok = cmd_success
    /\ child.raised => (~cmd_success /\ cmd_output = child.exc)
    /\ (~child.raised /\ child.returncode # 0) =>
         (~cmd_success /\ cmd_output = child.stderr)
    /\ (~child.raised /\ child.returncode = 0) => cmd_success

\* The simulator could not be launched; run_testbench went on and recorded
\* a FAILED outcome carrying the fault message.
C11_Witness ==
  /\ cmds # << >>
  /\ cmds[Len(cmds)].tool = "vsim"
  /\ child.raised
  /\ results # << >>
  /\ results[Len(results)].status = "FAILED"
  /\ results[Len(results)].output = FaultText
  /\ pc = "run_all_testbenches"

(***************************************************************************)
(* C12                                                                     *)
(***************************************************************************)
IsVdel(c) == c.by = "create_work_library" /\ c.tool = "vdel"

\* create_work_library reported success in the current run.
LibraryCreated == \E i \in 1..Len(cmds) : IsVlib(cmds[i]) /\ cmds[i].ok

\* C12: when create_work_library has reported success, the library holds no
\* unit from before the run, and no delete command of the run has failed.
C12_CleanSlate ==
  LibraryCreated =>
    /\ ~work.stale
    /\ \A i \in 1..Len(cmds) : IsVdel(cmds[i]) => cmds[i].ok

(***************************************************************************)
(* C13                                                                     *)
(***************************************************************************)
\* C13: a run that has returned has executed save_results, whatever its
\* probe, library, compile and simulate commands answered.
C13_EveryRunSavesReport == RunOver => saved

(***************************************************************************)
(* C14                                                                     *)
(***************************************************************************)
\* C14: when main exits after running at least one set, the report file
\* holds the outcomes produced since main began, all of them, in run order.
C14_ReportHoldsEveryOutcome ==
  (pc = "exit" /\ runs # << >>) => report_file.results = produced

(***************************************************************************)
(* C15                                                                     *)
(***************************************************************************)
RunFailedLibrary(r) ==
  \/ << "create_work_library", "vlib" >> \in r.failed
  \/ << "compile_design", "vlog" >> \in r.failed

\* C15: once library creation or design compilation has failed, in the
\* current run or in an earlier run of the same invocation, no testbench is
\* compiled or simulated and no outcome is recorded.
C15_NoTestbenchAfterLibraryFailure ==
  (\/ LibraryFailed
   \/ DesignFailed
   \/ \E i \in 1..Len(runs) : RunFailedLibrary(runs[i])) =>
     /\ TbCompiles = << >>
     /\ Simulations = << >>
     /\ results = << >>

(***************************************************************************)
(* C16                                                                     *)
(***************************************************************************)
\* C16: a simulated testbench whose simulator exited with a nonzero status
\* is FAILED, whatever text was captured.
C16_NonzeroExitIsFailed ==
  (JustSimulated /\ ~child.raised /\ child.returncode # 0) =>
     results[Len(results)].status = "FAILED"

(***************************************************************************)
(* C17                                                                     *)
(***************************************************************************)
HasPassMarker(text) ==
  \E m \in {STR_yahoo, STR_test_passed, STR_success} :
    OccursIgnoringCase(m, text)

\* C17: an outcome is PASSED only if the classified text holds a pass
\* marker; a simulation that exited successfully with a text holding neither
\* a pass marker nor "error" is COMPLETED.
C17_PassedNeedsMarker ==
  /\ \A i \in 1..Len(results) :
       results[i].status = "PASSED" =>
         /\ "output" \in DOMAIN results[i]
         /\ HasPassMarker(results[i].output)
  /\ (/\ JustSimulated
      /\ cmd_success
      /\ ~HasPassMarker(cmd_output)
      /\ ~OccursIgnoringCase(STR_error, cmd_output)) =>
       results[Len(results)].status = "COMPLETED"

\* The simulator exited successfully with a text that holds no marker at
\* all: COMPLETED.
C17_Witness ==
  /\ JustSimulated
  /\ cmd_success
  /\ cmd_output = NeutralText
  /\ results[Len(results)].status = "COMPLETED"

(***************************************************************************)
(* C18                                                                     *)
(***************************************************************************)
\* C18: the text classified for a simulated testbench includes what the
\* simulator wrote to its standard output and what it wrote to its standard
\* error, for a successful and for a nonzero exit.
C18_BothStreamsClassified ==
  (JustSimulated /\ ~child.raised) =>
     /\ results[Len(results)].output = cmd_output
     /\ Contains(child.stdout, cmd_output)
     /\ Contains(child.stderr, cmd_output)

(***************************************************************************)
(* C19                                                                     *)
(***************************************************************************)
ModifiesLibrary(c) == c.tool \in {"vdel", "vlib", "vlog"}

\* C19: in a run with skip_compile no library delete, no library create and
\* no design-file compile is issued; the only commands of the run that
\* modify the library are the testbench compiles, and the library changes
\* only in the step of a testbench compile.
C19_SkipCompileLeavesLibrary ==
  /\ [](skip_compile =>
          \A i \in 1..Len(cmds) :
             /\ ~IsVdel(cmds[i])
             /\ ~IsVlib(cmds[i])
             /\ ~IsDesignCompile(cmds[i])
             /\ ModifiesLibrary(cmds[i]) => IsTbCompile(cmds[i]))
  /\ [][(skip_compile' /\ work' # work) =>
          /\ Len(cmds') = Len(cmds) + 1
          /\ IsTbCompile(cmds'[Len(cmds')])]_vars

\* A skip_compile run on a stale library that compiled and simulated a
\* testbench: the stale units are still there.
C19_Witness ==
  /\ skip_compile
  /\ cmds # << >>
  /\ IsProbe(cmds[1])
  /\ TbCompiles # << >>
  /\ Simulations # << >>
  /\ work.stale
  /\ work.fresh

(***************************************************************************)
(* C20                                                                     *)
(***************************************************************************)
Phase(c) ==
  CASE IsProbe(c) -> 1
    [] IsVdel(c) -> 2
    [] IsVlib(c) -> 3
    [] IsDesignCompile(c) -> 4
    [] OTHER -> 5

\* The simulate command at position k follows directly the successful
\* compile command of the same testbench.
FollowsOwnCompile(k) ==
  /\ k > 1
  /\ IsTbCompile(cmds[k - 1])
  /\ cmds[k - 1].ok
  /\ \E n \in 1..Len(Testbenches(test_set)) :
       /\ Testbenches(test_set)[n].path = cmds[k - 1].arg
       /\ Testbenches(test_set)[n].module = cmds[k].arg

InPhaseOrder ==
  /\ cmds # << >> => IsProbe(cmds[1])
  /\ \A i, j \in 1..Len(cmds) :
       i < j => /\ Phase(cmds[i]) <= Phase(cmds[j])
                /\ Phase(cmds[j]) > 1
  /\ \A j \in 1..Len(cmds) :
       IsDesignCompile(cmds[j]) =>
         \E i \in 1..(j - 1) : IsVlib(cmds[i]) /\ cmds[i].ok
  /\ \A k \in 1..Len(cmds) : IsSimulate(cmds[k]) => FollowsOwnCompile(k)

\* Every testbench of the set has its outcome and no simulation is pending.
TestbenchesFinished ==
  /\ Len(results) = Len(Testbenches(test_set))
  /\ Len(TbCompiles) = Len(Testbenches(test_set))
  /\ ~(IsTbCompile(cmds[Len(cmds)]) /\ cmds[Len(cmds)].ok)

\* C20: commands are issued one at a time in phase order: the probe first,
\* library creation before every design compile, design compiles before
\* every testbench compile and simulate, each simulate directly after the
\* successful compile of its own testbench; the report is written only once
\* the last testbench has finished, and no command follows it in the run.
C20_SequentialPhaseOrder ==
  /\ [](InPhaseOrder /\ (saved => TestbenchesFinished))
  /\ [][\/ cmds' = cmds
        \/ cmds' = << >>
        \/ /\ Len(cmds') = Len(cmds) + 1
           /\ SubSeq(cmds', 1, Len(cmds)) = cmds
           /\ ~saved /\ ~saved']_vars

\* A full run that removed and created the library, compiled the design,
\* simulated a testbench and wrote its report.
C20_Witness ==
  /\ saved
  /\ ~skip_compile
  /\ \E i \in 1..Len(cmds) : IsVdel(cmds[i])
  /\ Len(DesignCmds) = Len(DesignFiles)
  /\ Len(Simulations) = Len(Testbenches(test_set))
  /\ Len(Simulations) > 1

(***************************************************************************)
(* C21                                                                     *)
(***************************************************************************)
\* The library's definition of the entry's module was compiled from the
\* entry's own file.
HoldsOwnSource(tb) == work.units[tb.module] = tb.path

\* C21: when a testbench's module is simulated, the definition the library
\* holds under that module name was compiled from that testbench's own file,
\* also when other entries of the set or of earlier sets share the name.
C21_SimulatesOwnSource ==
  /\ pc = "vsim" => HoldsOwnSource(Testbenches(test_set)[tb_idx])
  /\ JustSimulated =>
       /\ HoldsOwnSource(Testbenches(test_set)[tb_idx - 1])
       /\ Testbenches(test_set)[tb_idx - 1].module = cmds[Len(cmds)].arg

\* 'all' mode, second set: the second physics_tests entry is about to be
\* simulated after the first one, of the same module name, was, and after
\* the set tests compiled that name too.
C21_Witness ==
  /\ pc = "vsim"
  /\ runs # << >>
  /\ test_set = "physics_tests"
  /\ tb_idx = 2
  /\ Len(Simulations) = 1
  /\ Testbenches(test_set)[1].module = Testbenches(test_set)[2].module
  /\ Testbenches(test_set)[1].path # Testbenches(test_set)[2].path
  /\ HoldsOwnSource(Testbenches(test_set)[2])

(***************************************************************************)
(* C22                                                                     *)
(***************************************************************************)
Statuses == {"COMPILE_FAILED", "FAILED", "PASSED", "COMPLETED"}

\* C22: every outcome record of the result list carries the fields name,
\* module, status and duration, with status one of the four statuses, for
\* COMPILE_FAILED outcomes as for simulated ones.
C22_OutcomeFields ==
  \A i \in 1..Len(results) :
    /\ {"name", "module", "status", "duration"} \subseteq DOMAIN results[i]
    /\ results[i].status \in Statuses

=============================================================================
